---- MODULE Spec2Model ----
(***************************************************************************)
(* Model of the EEG acquisition pipeline of src-tauri/src/main.rs:         *)
(* the EEGProcessor behind Arc<Mutex<EEGProcessor>>, the four commands     *)
(* connect_to_lsl_stream, disconnect_from_lsl, get_current_stream_info and *)
(* start_eeg_processing, and the tick loop(s) the last one spawns.         *)
(*                                                                         *)
(* Conventions.                                                            *)
(*  - Option<T> is a sequence of length 0 (None) or 1 (Some(x)).           *)
(*  - A String is a sequence of one-character strings.                     *)
(*  - f32/f64 amplitudes are integers (microvolts); filter coefficients    *)
(*    are the source's decimals times CoefScale, products are divided by   *)
(*    CoefScale rounding toward zero.                                      *)
(*    A float that is not a number is the value NaN, which the arithmetic  *)
(*    hands on and every comparison answers with FALSE.                    *)
(*  - Times are integer milliseconds.                                      *)
(***************************************************************************)
EXTENDS Integers, Sequences, FiniteSets, TLC

(***************************************************************************)
(* Bounds of the model.                                                    *)
(***************************************************************************)
\* capacity of a window; EEGProcessor::new sets 512 (main.rs:213), the model
\* works with a scaled-down capacity so that full windows are reached
buffer_size == 2
\* number of start_eeg_processing calls (each spawns one loop)
NumLoops == 2
\* ticks all loops together perform
MaxTicks == 3
\* longest list resolve_streams returns
MaxStreams == 2

(***************************************************************************)
(* Program constants.                                                      *)
(***************************************************************************)
DefaultChannels == 8
ClipLimit == 300
FftPeriodMs == 250
BandpassOrder == 4
NotchLen == 3
\* buffer_size and sample_rate as EEGProcessor::new sets them
WindowCapacity == 512
sample_rate == 250
\* four decimal digits of the coefficients
CoefScale == 100 * 100

None == <<>>
Some(x) == <<x>>
IsSome(o) == Len(o) = 1
Unwrap(o) == o[1]

(***************************************************************************)
(* Strings.                                                                *)
(***************************************************************************)
LowerChar(c) ==
    CASE c = "E" -> "e"
      [] c = "G" -> "g"
      [] c = "U" -> "u"
      [] OTHER -> c

to_lowercase(s) == [i \in 1..Len(s) |-> LowerChar(s[i])]

contains(hay, needle) ==
    \E i \in 0..(Len(hay) - Len(needle)) :
        SubSeq(hay, i + 1, i + Len(needle)) = needle

Str123 == <<"1", "2", "3">>
StrUnicorn == <<"u", "n", "i", "c", "o", "r", "n">>

(***************************************************************************)
(* The external source: the streams that may be advertised, the names a    *)
(* caller may ask for, and the value vectors a pull may deliver.           *)
(***************************************************************************)
Catalogue ==
    { [hostname |-> <<"E", "E", "G">>, source_id |-> <<"a">>, channel_count |-> 1],
      [hostname |-> <<"e", "e", "g", "2">>, source_id |-> <<"b">>, channel_count |-> 2],
      [hostname |-> <<"p", "c">>, source_id |-> StrUnicorn, channel_count |-> 2] }

Targets == { <<"e", "e", "g">>, Str123, StrUnicorn \o <<"x">> }

\* the lists resolve_streams may return: no stream twice, discovery order free
Discovered ==
    { s \in UNION { [1..n -> Catalogue] : n \in 0..MaxStreams } :
        \A i, j \in 1..Len(s) : i # j => s[i] # s[j] }

\* f32::NAN: an integer no amplitude of the model takes
NaN == -(2^30)

\* a pulled vector has the advertised channel count of its stream: its prefix;
\* the source may send any f32, a NaN among them
SourceVectors == { <<100000, -30000>>, <<NaN, -30000>> }
LslTimestamps == { 7000 }
\* the time between two ticks of a loop: the period stretched by the pull
TickDelays == { 125 }

\* streams.iter().find(pred), hits being the positions that satisfy pred: the
\* first of them in list order
FindFirst(streams, hits) ==
    IF hits = {} THEN None
    ELSE Some(streams[CHOOSE i \in hits : \A j \in hits : i <= j])

\* the closure of connect_to_lsl's find (main.rs:247-262)
ConnectMatches(stream, stream_name) ==
    LET hostname == to_lowercase(stream.hostname)
        source_id == to_lowercase(stream.source_id)
        target == to_lowercase(stream_name)
    IN  \/ hostname = target
        \/ contains(source_id, target)
        \/ contains(hostname, target)
        \/ (target = Str123 /\ (hostname = Str123 \/ contains(source_id, StrUnicorn)))
        \/ (contains(target, StrUnicorn)
              /\ (contains(hostname, StrUnicorn) \/ contains(source_id, StrUnicorn)))

\* the closure of get_lsl_sample's find (main.rs:505-514)
PullMatches(stream, stream_name) ==
    LET hostname == to_lowercase(stream.hostname)
        source_id == to_lowercase(stream.source_id)
        target == to_lowercase(stream_name)
    IN  \/ hostname = target
        \/ contains(source_id, target)
        \/ contains(hostname, target)
        \/ (target = Str123 /\ (hostname = Str123 \/ contains(source_id, StrUnicorn)))

(***************************************************************************)
(* Filter chain (main.rs:60-177).                                          *)
(***************************************************************************)
Abs(v) == IF v = NaN THEN NaN ELSE IF v < 0 THEN -v ELSE v
signum(v) == IF v = NaN THEN NaN ELSE IF v < 0 THEN -1 ELSE 1
Min(a, b) == IF a <= b THEN a ELSE b

\* float arithmetic and comparison: NaN in, NaN out; NaN > x is false (the
\* operands p and q are bound once)
Add(x, y) ==
    CHOOSE r \in { IF p = NaN \/ q = NaN THEN NaN ELSE p + q : p \in {x}, q \in {y} } : TRUE
Sub(x, y) ==
    CHOOSE r \in { IF p = NaN \/ q = NaN THEN NaN ELSE p - q : p \in {x}, q \in {y} } : TRUE
Mul(x, y) ==
    CHOOSE r \in { IF p = NaN \/ q = NaN THEN NaN ELSE p * q : p \in {x}, q \in {y} } : TRUE
Gt(x, y) == x # NaN /\ y # NaN /\ x > y

\* n / d rounded toward zero
TruncDiv(n, d) ==
    CHOOSE r \in { IF p = NaN THEN NaN
                   ELSE IF p >= 0 THEN p \div d ELSE -((-p) \div d) : p \in {n} } : TRUE

\* b and a of ButterworthFilter::new (main.rs:72-73), times CoefScale
BandpassB == <<67, 0, -134, 0, 67>>
BandpassA == <<10000, -31806, 38612, -21122, 4383>>
\* b and a of NotchFilter::new (main.rs:134-135), times CoefScale
NotchB == <<9565, -19131, 9565>>
NotchA == <<10000, -19131, 9131>>

Zeros(n) == [i \in 1..n |-> 0]

ButterworthFilter_new(order, channel_count) ==
    [ x_history |-> [c \in 1..channel_count |-> Zeros(order + 1)],
      y_history |-> [c \in 1..channel_count |-> Zeros(order + 1)] ]

NotchFilter_new(channel_count) ==
    [ x_history |-> [c \in 1..channel_count |-> Zeros(NotchLen)],
      y_history |-> [c \in 1..channel_count |-> Zeros(NotchLen)] ]

\* sum of coef[i] * hist[i] for i in from..Min(Len(coef), Len(hist)) (1-based)
RECURSIVE Dot(_, _, _)
Dot(coef, hist, from) ==
    IF from > Min(Len(coef), Len(hist)) THEN 0
    ELSE Add(Mul(coef[from], hist[from]), Dot(coef, hist, from + 1))

\* "Shift history": h[i] = h[i-1] for i = len-1 down to 1; h[0] keeps its value
Shift(h) == [i \in 1..Len(h) |-> IF i = 1 THEN h[1] ELSE h[i - 1]]

\* one channel of process(): the new x history, the new y history (x1 and
\* ys, the shifted histories, are bound once)
StepChannel(b, a, xh, yh, sample) ==
    CHOOSE r \in { [ x |-> x1,
                     y |-> [ys EXCEPT ![1] =
                              TruncDiv(Sub(Dot(b, x1, 1), Dot(a, ys, 2)), CoefScale)] ] :
                   x1 \in { [Shift(xh) EXCEPT ![1] = sample] }, ys \in { Shift(yh) } } : TRUE

\* ButterworthFilter::process and NotchFilter::process: a channel beyond the
\* histories is passed through and leaves the state alone
FilterProcess(b, a, f, input) ==
    LET n == Len(f.x_history)
    IN  CHOOSE r \in
          { [ filter |->
                [ x_history |-> [ch \in 1..n |->
                     IF ch <= Len(input) THEN st[ch].x ELSE f.x_history[ch]],
                  y_history |-> [ch \in 1..n |->
                     IF ch <= Len(input) THEN st[ch].y ELSE f.y_history[ch]] ],
              output |-> [ch \in 1..Len(input) |->
                     IF ch <= n THEN st[ch].y[1] ELSE input[ch]] ] :
            st \in { [ch \in 1..Min(n, Len(input)) |->
                        StepChannel(b, a, f.x_history[ch], f.y_history[ch], input[ch])] } } :
          TRUE

Clip(v) == IF Gt(Abs(v), ClipLimit) THEN Mul(signum(v), ClipLimit) ELSE v

\* EEGProcessor::apply_real_time_filters: the filtered sample and both filters
apply_real_time_filters(bandpass, notch, sample) ==
    IF IsSome(bandpass) /\ IsSome(notch)
    THEN CHOOSE r \in UNION {
             { [ bandpass |-> Some(bp.filter),
                 notch |-> Some(nt.filter),
                 fallback |-> FALSE,
                 filtered |-> [ timestamp |-> sample.timestamp,
                                channels |-> [i \in 1..Len(nt.output) |-> Clip(nt.output[i])] ] ] :
               nt \in { FilterProcess(NotchB, NotchA, Unwrap(notch), bp.output) } } :
             bp \in { FilterProcess(BandpassB, BandpassA, Unwrap(bandpass), sample.channels) } } :
           TRUE
    ELSE [ bandpass |-> bandpass,
           notch |-> notch,
           fallback |-> TRUE,
           filtered |-> [ timestamp |-> sample.timestamp,
                          channels |-> [i \in 1..Len(sample.channels) |->
                              TruncDiv(Mul(Clip(sample.channels[i]), 95), 100)] ] ]

(***************************************************************************)
(* Ring buffer store and analyzer (main.rs:588-665).                       *)
(***************************************************************************)
\* variant of PushWindow: nothing is removed
PushWindow_NoEvict(buf, v) == Append(buf, v)

\* variant of PushWindow: the newest value is dropped from a full window
PushWindow_EvictNewest(buf, v) ==
    LET b == Append(buf, v)
    IN  IF Len(b) > buffer_size THEN SubSeq(b, 1, buffer_size) ELSE b

\* push, then remove(0) when longer than buffer_size
PushWindow(buf, v) ==
    LET b == Append(buf, v)
    IN  IF Len(b) > buffer_size THEN Tail(b) ELSE b

\* one set of windows after update_buffers; n is the length of the zip
PushAll(buffers, values, n) ==
    [i \in 1..Len(buffers) |->
        IF i <= n THEN PushWindow(buffers[i], values[i]) ELSE buffers[i]]

\* a variant that leaves the filtered windows alone
update_buffers_RawOnly(raw_buffers, filt_buffers, sample, filtered_sample) ==
    LET n == Min(Len(sample.channels), Len(filtered_sample.channels))
    IN  [ raw |-> PushAll(raw_buffers, sample.channels, n),
          filtered |-> filt_buffers ]

\* EEGProcessor::update_buffers (main.rs:588-609): both window sets after one
\* sample and its filtered sample
update_buffers(raw_buffers, filt_buffers, sample, filtered_sample) ==
    LET n == Min(Len(sample.channels), Len(filtered_sample.channels))
    IN  [ raw |-> PushAll(raw_buffers, sample.channels, n),
          filtered |-> PushAll(filt_buffers, filtered_sample.channels, n) ]

BandNames == {"delta", "theta", "alpha", "beta", "gamma"}

\* variant of BandOf: beta begins where alpha ends
BandOf_NoGap(i, rate, size) ==
    LET n == i * rate
    IN  IF 2 * n >= size /\ n < 4 * size THEN "delta"
        ELSE IF n >= 4 * size /\ n < 8 * size THEN "theta"
        ELSE IF n >= 8 * size /\ n < 12 * size THEN "alpha"
        ELSE IF n >= 12 * size /\ n < 30 * size THEN "beta"
        ELSE IF n >= 30 * size /\ n < 100 * size THEN "gamma"
        ELSE "none"

\* the match on freq = i * freq_resolution, freq_resolution = rate / size
\* (main.rs:632-650): the band the power of coefficient i is added to;
\* freq >= x is i * rate >= x * size
BandOf(i, rate, size) ==
    LET n == i * rate
    IN  IF 2 * n >= size /\ n < 4 * size THEN "delta"
        ELSE IF n >= 4 * size /\ n < 8 * size THEN "theta"
        ELSE IF n >= 8 * size /\ n < 12 * size THEN "alpha"
        ELSE IF n >= 13 * size /\ n < 30 * size THEN "beta"
        ELSE IF n >= 30 * size /\ n < 100 * size THEN "gamma"
        ELSE "none"

\* variant of analyze_frequency_bands: a window one sample short of
\* buffer_size is analysed too
analyze_frequency_bands_Partial(buffers, timestamp) ==
    LET idx == [i \in 1..Len(buffers) |-> i]
        full == SelectSeq(idx, LAMBDA i : ~(Len(buffers[i]) < buffer_size - 1))
    IN  [k \in 1..Len(full) |->
            [ timestamp |-> timestamp,
              channel |-> full[k] - 1,
              window |-> buffers[full[k]],
              bins |-> [b \in BandNames |->
                  { i \in 0..(buffer_size - 1) : BandOf(i, sample_rate, buffer_size) = b }] ]]

\* EEGProcessor::analyze_frequency_bands: one entry per channel whose window
\* is not shorter than buffer_size, in channel order.  The five magnitudes
\* are a function of the transformed window, which the entry carries, and of
\* the coefficients each band sums, bins.
analyze_frequency_bands(buffers, timestamp) ==
    LET idx == [i \in 1..Len(buffers) |-> i]
        full == SelectSeq(idx, LAMBDA i : ~(Len(buffers[i]) < buffer_size))
    IN  [k \in 1..Len(full) |->
            [ timestamp |-> timestamp,
              channel |-> full[k] - 1,
              window |-> buffers[full[k]],
              bins |-> [b \in BandNames |->
                  { i \in 0..(buffer_size - 1) : BandOf(i, sample_rate, buffer_size) = b }] ]]

(***************************************************************************)
(* State.                                                                  *)
(***************************************************************************)
Loops == 1..NumLoops

VARIABLES
    connection,        \* EEGProcessor.lsl_connection: LSLConnection
    channel_buffers,   \* EEGProcessor.channel_buffers: the raw windows
    filtered_buffers,  \* EEGProcessor.filtered_buffers: the filtered windows
    bandpass_filter,   \* EEGProcessor.bandpass_filter: Option<ButterworthFilter>
    notch_filter,      \* EEGProcessor.notch_filter: Option<NotchFilter>
    processor_locked,  \* the tokio Mutex around the EEGProcessor is held
    connect_cmd,       \* the connect_to_lsl_stream invocation
    disconnect_cmd,    \* the disconnect_from_lsl invocation
    info_cmd,          \* the get_current_stream_info invocation
    loop,              \* the tasks spawned by start_eeg_processing
    emitted,           \* per loop: the emit_all calls of its current tick
    torn_down,         \* history: a disconnect ran and no connect succeeded since
    bench              \* the operands of a function exercised on its own

pipeline == <<connection, channel_buffers, filtered_buffers, bandpass_filter, notch_filter>>
commands == <<connect_cmd, disconnect_cmd, info_cmd>>
vars == <<connection, channel_buffers, filtered_buffers, bandpass_filter, notch_filter,
          processor_locked, connect_cmd, disconnect_cmd, info_cmd, loop, emitted, torn_down,
          bench>>

\* LSLConnection::new (main.rs:189-196)
LSLConnection_new ==
    [ stream_info |-> None,
      channel_count |-> DefaultChannels,
      is_real_connection |-> FALSE,
      stream_name |-> None ]

EmptyWindows(n) == [i \in 1..n |-> <<>>]

\* the locals of a loop between two ticks
LoopIdle(l) ==
    [ is_real_connection |-> FALSE, pull |-> None, lsl_sample |-> None,
      filtered_sample |-> None, fallback |-> FALSE, at_lock |-> None,
      after_update |-> None, analysed |-> None ]

\* EEGProcessor::new (main.rs:210-220) and main (main.rs:838): no loop runs
PipelineInit ==
    /\ connection = LSLConnection_new
    /\ channel_buffers = EmptyWindows(DefaultChannels)
    /\ filtered_buffers = EmptyWindows(DefaultChannels)
    /\ bandpass_filter = None
    /\ notch_filter = None
    /\ processor_locked = FALSE
    /\ connect_cmd = [pc |-> "idle", stream_name |-> <<>>, result |-> None, pre |-> None]
    /\ disconnect_cmd = [pc |-> "idle"]
    /\ info_cmd = [pc |-> "idle", ret |-> None]
    /\ loop = [l \in Loops |->
                 [pc |-> "off", sample_count |-> 0, timestamp |-> 0,
                  last_fft_time |-> 0, failed |-> FALSE, locals |-> LoopIdle(l)]]
    /\ emitted = [l \in Loops |-> <<>>]
    /\ torn_down = FALSE

BenchIdle == [op |-> "none"]

Init ==
    /\ PipelineInit
    /\ bench = BenchIdle

(***************************************************************************)
(* connect_to_lsl_stream (main.rs:678-701) and EEGProcessor::connect_to_lsl *)
(* (main.rs:222-382).                                                      *)
(***************************************************************************)
ConnectCall(target) ==
    /\ connect_cmd.pc = "idle"
    /\ connect_cmd' = [pc |-> "lock", stream_name |-> target, result |-> None, pre |-> None]
    /\ UNCHANGED <<bench, pipeline, processor_locked, disconnect_cmd, info_cmd, loop, emitted, torn_down>>

\* processor.lock().await (main.rs:686)
ConnectLock ==
    /\ connect_cmd.pc = "lock"
    /\ ~processor_locked
    /\ processor_locked' = TRUE
    /\ connect_cmd' = [connect_cmd EXCEPT !.pc = "resolve",
                          !.pre = Some([ connection |-> connection,
                                         raw |-> channel_buffers,
                                         filtered |-> filtered_buffers,
                                         bandpass |-> bandpass_filter,
                                         notch |-> notch_filter ])]
    /\ UNCHANGED <<bench, pipeline, disconnect_cmd, info_cmd, loop, emitted, torn_down>>

\* the known layouts of extract_real_channel_names_sync (main.rs:398-428)
StrOpenbci == <<"o", "p", "e", "n", "b", "c", "i">>
StrEmotiv == <<"e", "m", "o", "t", "i", "v">>

unicorn_channels ==
    << "Fz", "C3", "Cz", "C4", "Pz", "PO7", "Oz", "PO8",
       "ACC_X", "ACC_Y", "ACC_Z", "GYR_X", "GYR_Y", "GYR_Z",
       "Battery", "Counter", "Validation" >>

openbci_8ch == << "Fp1", "Fp2", "C3", "C4", "P7", "P8", "O1", "O2" >>

openbci_16ch ==
    << "Fp1", "Fp2", "F7", "F3", "F4", "F8", "C3", "Cz",
       "C4", "T7", "T8", "P7", "P3", "Pz", "P4", "P8" >>

emotiv_channels ==
    << "AF3", "F7", "F3", "FC5", "T7", "P7", "O1", "O2",
       "P8", "T8", "FC6", "F4", "F8", "AF4" >>

\* format!("Ch{}", k)
ChName(k) == "Ch" \o ToString(k)

\* for i in 0..channel_count.min(table.len()) { push(table[i]) }
TableNames(table, channel_count) ==
    SubSeq(table, 1, Min(channel_count, Len(table)))

\* while channel_names.len() < channel_count { push Ch{len + 1} } (main.rs:442-444)
RECURSIVE PadNames(_, _)
PadNames(channel_names, channel_count) ==
    IF Len(channel_names) < channel_count
    THEN PadNames(Append(channel_names, ChName(Len(channel_names) + 1)), channel_count)
    ELSE channel_names

\* the names detected from the device's layout, before padding (main.rs:390-439)
DetectedNames(stream, channel_count) ==
    LET source_id == to_lowercase(stream.source_id)
        stream_name == to_lowercase(stream.hostname)
    IN  IF \/ contains(source_id, StrUnicorn)
           \/ contains(stream_name, StrUnicorn)
           \/ stream_name = Str123
        THEN TableNames(unicorn_channels, channel_count)
        ELSE IF contains(source_id, StrOpenbci) \/ contains(stream_name, StrOpenbci)
        THEN TableNames(IF channel_count <= 8 THEN openbci_8ch ELSE openbci_16ch,
                        channel_count)
        ELSE IF contains(source_id, StrEmotiv) \/ contains(stream_name, StrEmotiv)
        THEN TableNames(emotiv_channels, channel_count)
        ELSE [i \in 1..channel_count |-> ChName(i)]

\* a variant without the padding loop
extract_real_channel_names_sync_NoPad(stream, channel_count) ==
    LET detected == DetectedNames(stream, channel_count)
    IN  SubSeq(detected, 1, Min(channel_count, Len(detected)))

\* EEGProcessor::extract_real_channel_names_sync (main.rs:384-452): layout,
\* then padding, then truncate(channel_count)
extract_real_channel_names_sync(stream, channel_count) ==
    LET padded == PadNames(DetectedNames(stream, channel_count), channel_count)
    IN  SubSeq(padded, 1, Min(channel_count, Len(padded)))

\* what the spawn_blocking closure returns for the streams it discovered
\* (main.rs:246-342): the descriptor of the first match, or an error
ConnectOutcome(streams, target, inlet_ok) ==
    LET m == FindFirst(streams, { i \in 1..Len(streams) : ConnectMatches(streams[i], target) })
    IN  IF ~IsSome(m)
        THEN [ok |-> FALSE, error |-> "not_found",
              available |-> [i \in 1..Len(streams) |-> streams[i].hostname]]
        ELSE IF ~inlet_ok
        THEN [ok |-> FALSE, error |-> "inlet", available |-> <<>>]
        ELSE [ok |-> TRUE,
              channel_count |-> Unwrap(m).channel_count,
              is_real |-> TRUE,
              info |-> [ name |-> Unwrap(m).hostname,
                         channel_count |-> Unwrap(m).channel_count,
                         channel_names |->
                             extract_real_channel_names_sync(Unwrap(m), Unwrap(m).channel_count),
                         is_connected |-> TRUE,
                         source_id |-> Unwrap(m).source_id ]]

\* variant of ConnectCommit: the Ok arm forgets to replace the windows
ConnectCommit_KeepWindows(r, target) ==
    IF r.ok
    THEN /\ connection' = [ stream_info |-> Some(r.info),
                            channel_count |-> r.channel_count,
                            is_real_connection |-> r.is_real,
                            stream_name |-> Some(target) ]
         /\ bandpass_filter' = Some(ButterworthFilter_new(BandpassOrder, r.channel_count))
         /\ notch_filter' = Some(NotchFilter_new(r.channel_count))
         /\ torn_down' = FALSE
         /\ UNCHANGED <<channel_buffers, filtered_buffers>>
    ELSE UNCHANGED <<pipeline, torn_down>>

\* variant of ConnectCommit: an Err arm drops the connection
ConnectCommit_ClearOnError(r, target) ==
    IF r.ok
    THEN /\ connection' = [ stream_info |-> Some(r.info),
                            channel_count |-> r.channel_count,
                            is_real_connection |-> r.is_real,
                            stream_name |-> Some(target) ]
         /\ channel_buffers' = EmptyWindows(r.channel_count)
         /\ filtered_buffers' = EmptyWindows(r.channel_count)
         /\ bandpass_filter' = Some(ButterworthFilter_new(BandpassOrder, r.channel_count))
         /\ notch_filter' = Some(NotchFilter_new(r.channel_count))
         /\ torn_down' = FALSE
    ELSE /\ connection' = [connection EXCEPT !.stream_info = None,
                                             !.is_real_connection = FALSE]
         /\ UNCHANGED <<channel_buffers, filtered_buffers, bandpass_filter,
                        notch_filter, torn_down>>

\* variant of ConnectCommit: the Ok arm leaves the notch filter out
ConnectCommit_NoNotch(r, target) ==
    IF r.ok
    THEN /\ connection' = [ stream_info |-> Some(r.info),
                            channel_count |-> r.channel_count,
                            is_real_connection |-> r.is_real,
                            stream_name |-> Some(target) ]
         /\ channel_buffers' = EmptyWindows(r.channel_count)
         /\ filtered_buffers' = EmptyWindows(r.channel_count)
         /\ bandpass_filter' = Some(ButterworthFilter_new(BandpassOrder, r.channel_count))
         /\ notch_filter' = None
         /\ torn_down' = FALSE
    ELSE UNCHANGED <<pipeline, torn_down>>

\* variant of ConnectCommit: an Err arm empties the windows
ConnectCommit_ResetWindowsOnError(r, target) ==
    IF r.ok
    THEN /\ connection' = [ stream_info |-> Some(r.info),
                            channel_count |-> r.channel_count,
                            is_real_connection |-> r.is_real,
                            stream_name |-> Some(target) ]
         /\ channel_buffers' = EmptyWindows(r.channel_count)
         /\ filtered_buffers' = EmptyWindows(r.channel_count)
         /\ bandpass_filter' = Some(ButterworthFilter_new(BandpassOrder, r.channel_count))
         /\ notch_filter' = Some(NotchFilter_new(r.channel_count))
         /\ torn_down' = FALSE
    ELSE /\ channel_buffers' = EmptyWindows(Len(channel_buffers))
         /\ filtered_buffers' = EmptyWindows(Len(filtered_buffers))
         /\ UNCHANGED <<connection, bandpass_filter, notch_filter, torn_down>>

\* the state EEGProcessor::connect_to_lsl leaves for a closure result r: the
\* Ok arm replaces connection, windows and filters, the Err arms change
\* nothing (main.rs:351-381)
ConnectCommit(r, target) ==
    IF r.ok
    THEN /\ connection' = [ stream_info |-> Some(r.info),
                            channel_count |-> r.channel_count,
                            is_real_connection |-> r.is_real,
                            stream_name |-> Some(target) ]
         /\ channel_buffers' = EmptyWindows(r.channel_count)
         /\ filtered_buffers' = EmptyWindows(r.channel_count)
         /\ bandpass_filter' = Some(ButterworthFilter_new(BandpassOrder, r.channel_count))
         /\ notch_filter' = Some(NotchFilter_new(r.channel_count))
         /\ torn_down' = FALSE
    ELSE UNCHANGED <<pipeline, torn_down>>

\* the results the blocking closure may return for a target: resolve_streams
\* fails, or it returns some streams and the inlet opens or not
ConnectResults(target) ==
    { [ok |-> FALSE, error |-> "resolve", available |-> <<>>] }
    \cup { ConnectOutcome(streams, target, inlet_ok) :
             streams \in Discovered, inlet_ok \in BOOLEAN }

\* ConnectResults, tabulated per target
ConnectResultsOf == [target \in Targets |-> ConnectResults(target)]

\* EEGProcessor::connect_to_lsl once the blocking discovery has returned
\* (main.rs:227-381); the processor mutex was held all the while
connect_to_lsl ==
    /\ connect_cmd.pc = "resolve"
    /\ \E r \in ConnectResultsOf[connect_cmd.stream_name] :
          /\ ConnectCommit(r, connect_cmd.stream_name)
          /\ connect_cmd' = [connect_cmd EXCEPT !.pc = "done", !.result = Some(r)]
    /\ UNCHANGED <<bench, processor_locked, disconnect_cmd, info_cmd, loop, emitted>>

\* the command returns and drops processor_guard (main.rs:700)
ConnectReturn ==
    /\ connect_cmd.pc = "done"
    /\ processor_locked' = FALSE
    /\ connect_cmd' = [pc |-> "idle", stream_name |-> <<>>, result |-> None, pre |-> None]
    /\ UNCHANGED <<bench, pipeline, disconnect_cmd, info_cmd, loop, emitted, torn_down>>

(***************************************************************************)
(* disconnect_from_lsl (main.rs:703-716), EEGProcessor::disconnect_lsl     *)
(* (main.rs:474-485).                                                      *)
(***************************************************************************)
DisconnectCall ==
    /\ disconnect_cmd.pc = "idle"
    /\ disconnect_cmd' = [pc |-> "lock"]
    /\ UNCHANGED <<bench, pipeline, processor_locked, connect_cmd, info_cmd, loop, emitted, torn_down>>

\* variant of DisconnectLock: the command does not wait for the processor mutex
DisconnectLock_NoWait ==
    /\ disconnect_cmd.pc = "lock"
    /\ processor_locked' = TRUE
    /\ disconnect_cmd' = [pc |-> "run"]
    /\ UNCHANGED <<bench, pipeline, connect_cmd, info_cmd, loop, emitted, torn_down>>

\* processor.lock().await (main.rs:710)
DisconnectLock ==
    /\ disconnect_cmd.pc = "lock"
    /\ ~processor_locked
    /\ processor_locked' = TRUE
    /\ disconnect_cmd' = [pc |-> "run"]
    /\ UNCHANGED <<bench, pipeline, connect_cmd, info_cmd, loop, emitted, torn_down>>

\* variant of disconnect_lsl: the notch filter is not torn down
disconnect_lsl_KeepNotch ==
    /\ disconnect_cmd.pc = "run"
    /\ connection' = [ stream_info |-> None,
                       channel_count |-> DefaultChannels,
                       is_real_connection |-> FALSE,
                       stream_name |-> None ]
    /\ bandpass_filter' = None
    /\ torn_down' = TRUE
    /\ disconnect_cmd' = [pc |-> "done"]
    /\ UNCHANGED <<bench, channel_buffers, filtered_buffers, notch_filter, processor_locked,
                   connect_cmd, info_cmd, loop, emitted>>

\* EEGProcessor::disconnect_lsl (main.rs:474-485)
disconnect_lsl ==
    /\ disconnect_cmd.pc = "run"
    /\ connection' = [ stream_info |-> None,
                       channel_count |-> DefaultChannels,
                       is_real_connection |-> FALSE,
                       stream_name |-> None ]
    /\ bandpass_filter' = None
    /\ notch_filter' = None
    /\ torn_down' = TRUE
    /\ disconnect_cmd' = [pc |-> "done"]
    /\ UNCHANGED <<bench, channel_buffers, filtered_buffers, processor_locked,
                   connect_cmd, info_cmd, loop, emitted>>

\* Ok(()) and the guard is dropped (main.rs:715)
DisconnectReturn ==
    /\ disconnect_cmd.pc = "done"
    /\ processor_locked' = FALSE
    /\ disconnect_cmd' = [pc |-> "idle"]
    /\ UNCHANGED <<bench, pipeline, connect_cmd, info_cmd, loop, emitted, torn_down>>

(***************************************************************************)
(* get_current_stream_info (main.rs:718-729), get_stream_info (667-670).   *)
(***************************************************************************)
InfoCall ==
    /\ info_cmd.pc = "idle"
    /\ info_cmd' = [pc |-> "lock", ret |-> None]
    /\ UNCHANGED <<bench, pipeline, processor_locked, connect_cmd, disconnect_cmd, loop, emitted, torn_down>>

InfoLock ==
    /\ info_cmd.pc = "lock"
    /\ ~processor_locked
    /\ processor_locked' = TRUE
    /\ info_cmd' = [info_cmd EXCEPT !.pc = "run"]
    /\ UNCHANGED <<bench, pipeline, connect_cmd, disconnect_cmd, loop, emitted, torn_down>>

get_stream_info ==
    /\ info_cmd.pc = "run"
    /\ info_cmd' = [pc |-> "done", ret |-> connection.stream_info]
    /\ UNCHANGED <<bench, pipeline, processor_locked, connect_cmd, disconnect_cmd, loop, emitted, torn_down>>

InfoReturn ==
    /\ info_cmd.pc = "done"
    /\ processor_locked' = FALSE
    /\ info_cmd' = [pc |-> "idle", ret |-> None]
    /\ UNCHANGED <<bench, pipeline, connect_cmd, disconnect_cmd, loop, emitted, torn_down>>

(***************************************************************************)
(* start_eeg_processing (main.rs:731-816) and the loop it spawns.          *)
(***************************************************************************)
\* tokio::spawn of the loop (main.rs:741-748); loops are numbered in spawn
\* order; nothing checks whether a loop already runs
start_eeg_processing(l) ==
    /\ loop[l].pc = "off"
    /\ \A k \in Loops : k < l => loop[k].pc # "off"
    /\ loop' = [loop EXCEPT ![l].pc = "wait"]
    /\ UNCHANGED <<bench, pipeline, processor_locked, commands, emitted, torn_down>>

RECURSIVE TicksUpTo(_)
TicksUpTo(l) == IF l = 0 THEN 0 ELSE loop[l].sample_count + TicksUpTo(l - 1)
TotalTicks == TicksUpTo(NumLoops)

\* interval.tick().await returns; timestamp and sample_count (main.rs:751-755)
IntervalTick(l) ==
    /\ loop[l].pc = "wait"
    /\ TotalTicks < MaxTicks
    /\ \E d \in TickDelays :
          loop' = [loop EXCEPT ![l].pc = "lock",
                               ![l].timestamp = @ + d,
                               ![l].sample_count = @ + 1]
    /\ UNCHANGED <<bench, pipeline, processor_locked, commands, emitted, torn_down>>

\* processor.lock().await, then is_real_connection().await and the branch
\* on it (main.rs:757-760)
TickLock(l) ==
    /\ loop[l].pc = "lock"
    /\ ~processor_locked
    /\ processor_locked' = TRUE
    /\ loop' = [loop EXCEPT ![l].pc = IF connection.is_real_connection THEN "pull" ELSE "sleep",
                   ![l].locals.is_real_connection = connection.is_real_connection,
                   ![l].locals.at_lock = Some([ raw |-> channel_buffers,
                                                filtered |-> filtered_buffers,
                                                bandpass |-> bandpass_filter,
                                                notch |-> notch_filter ])]
    /\ UNCHANGED <<bench, pipeline, commands, emitted, torn_down>>

\* the non-real branch: a warning and a 100 ms sleep (main.rs:804-808)
TickSleep(l) ==
    /\ loop[l].pc = "sleep"
    /\ loop' = [loop EXCEPT ![l].pc = "unlock"]
    /\ UNCHANGED <<bench, pipeline, processor_locked, commands, emitted, torn_down>>

\* get_lsl_sample up to drop(connection) (main.rs:488-498)
PullBegin(l) ==
    /\ loop[l].pc = "pull"
    /\ IF ~connection.is_real_connection \/ ~IsSome(connection.stream_name)
       THEN loop' = [loop EXCEPT ![l].pc = "unlock", ![l].locals.lsl_sample = None]
       ELSE loop' = [loop EXCEPT ![l].pc = "pulling",
                        ![l].locals.pull = Some([ stream_name |-> Unwrap(connection.stream_name),
                                                  channel_count |-> connection.channel_count ])]
    /\ UNCHANGED <<bench, pipeline, processor_locked, commands, emitted, torn_down>>

\* a variant that keeps the pulled values and fills nothing in
PulledChannels_NoFill(sample, channel_count) ==
    SubSeq(sample, 1, Min(channel_count, Len(sample)))

\* the channels of the EEGSample built from a pulled vector (main.rs:522-525)
PulledChannels(sample, channel_count) ==
    [i \in 1..channel_count |-> IF i <= Len(sample) THEN sample[i] ELSE 0]

\* what the spawn_blocking closure of get_lsl_sample returns (main.rs:501-543)
PullOutcome(streams, stream_name, channel_count, inlet_ok, pulled) ==
    LET m == FindFirst(streams, { i \in 1..Len(streams) : PullMatches(streams[i], stream_name) })
    IN  IF ~IsSome(m) \/ ~inlet_ok \/ ~IsSome(pulled) THEN None
        ELSE Some([ timestamp |-> Unwrap(pulled).timestamp,
                    channels |-> PulledChannels(
                        SubSeq(Unwrap(pulled).values, 1, Unwrap(m).channel_count),
                        channel_count) ])

\* what pull_sample may deliver: nothing within the timeout, or a vector
Pulls ==
    {None} \cup { Some([timestamp |-> t, values |-> v]) : t \in LslTimestamps, v \in SourceVectors }

\* what the blocking task of get_lsl_sample may hand back for a bound name
\* and a channel count: None when resolve_streams fails or the task is lost
\* (main.rs:541-545), else the outcome for the streams found
PullResults(stream_name, channel_count) ==
    {None} \cup
    { PullOutcome(streams, stream_name, channel_count, inlet_ok, pulled) :
        streams \in Discovered, inlet_ok \in BOOLEAN, pulled \in Pulls }

\* the channel counts a connection may have, and PullResults tabulated
ChannelCounts == { s.channel_count : s \in Catalogue }
PullResultsOf ==
    [stream_name \in Targets |-> [channel_count \in ChannelCounts |->
        PullResults(stream_name, channel_count)]]

\* variant of PullEnd: on an underrun a zero sample is pushed into the windows
PullEnd_Substitute(l) ==
    /\ loop[l].pc = "pulling"
    /\ \E r \in PullResultsOf[Unwrap(loop[l].locals.pull).stream_name]
                             [Unwrap(loop[l].locals.pull).channel_count] :
          /\ loop' = [loop EXCEPT ![l].locals.lsl_sample = r,
                                  ![l].pc = IF IsSome(r) THEN "filter" ELSE "unlock"]
          /\ IF IsSome(r)
             THEN UNCHANGED <<channel_buffers, filtered_buffers>>
             ELSE /\ channel_buffers' =
                        PushAll(channel_buffers, Zeros(Len(channel_buffers)), Len(channel_buffers))
                  /\ filtered_buffers' =
                        PushAll(filtered_buffers, Zeros(Len(filtered_buffers)), Len(filtered_buffers))
    /\ UNCHANGED <<bench, connection, bandpass_filter, notch_filter, processor_locked,
                   commands, emitted, torn_down>>

\* the blocking pull returns (main.rs:501-545) and the tick branches on it
PullEnd(l) ==
    /\ loop[l].pc = "pulling"
    /\ \E r \in PullResultsOf[Unwrap(loop[l].locals.pull).stream_name]
                             [Unwrap(loop[l].locals.pull).channel_count] :
          loop' = [loop EXCEPT ![l].locals.lsl_sample = r,
                               ![l].pc = IF IsSome(r) THEN "filter" ELSE "unlock"]
    /\ UNCHANGED <<bench, pipeline, processor_locked, commands, emitted, torn_down>>

\* apply_real_time_filters (main.rs:772)
TickFilter(l) ==
    /\ loop[l].pc = "filter"
    /\ \E r \in { apply_real_time_filters(bandpass_filter, notch_filter,
                                           Unwrap(loop[l].locals.lsl_sample)) } :
          /\ bandpass_filter' = r.bandpass
          /\ notch_filter' = r.notch
          /\ loop' = [loop EXCEPT ![l].pc = "buffers",
                                  ![l].locals.filtered_sample = Some(r.filtered),
                                  ![l].locals.fallback = r.fallback]
    /\ UNCHANGED <<bench, connection, channel_buffers, filtered_buffers, processor_locked,
                   commands, emitted, torn_down>>

\* update_buffers (main.rs:775)
TickUpdateBuffers(l) ==
    /\ loop[l].pc = "buffers"
    /\ LET r == update_buffers(channel_buffers, filtered_buffers,
                               Unwrap(loop[l].locals.lsl_sample),
                               Unwrap(loop[l].locals.filtered_sample))
       IN  /\ channel_buffers' = r.raw
           /\ filtered_buffers' = r.filtered
           /\ loop' = [loop EXCEPT ![l].pc = "emit",
                                   ![l].locals.after_update = Some(r.filtered)]
    /\ UNCHANGED <<bench, connection, bandpass_filter, notch_filter, processor_locked,
                   commands, emitted, torn_down>>

\* variant of TickEvents: the raw sample is emitted on the odd samples
TickEvents_RawOnOdd(sample_count, fft_due, lsl_sample, filtered_sample, bands) ==
    (IF sample_count % 2 = 1
        THEN <<[event |-> "eeg_sample", payload |-> lsl_sample]>> ELSE <<>>)
    \o (IF sample_count % 2 = 0
        THEN <<[event |-> "filtered_eeg_sample", payload |-> filtered_sample]>> ELSE <<>>)
    \o (IF fft_due
        THEN <<[event |-> "frequency_bands", payload |-> bands]>> ELSE <<>>)

\* the events of one processed tick, in the order of the emit_all calls:
\* "eeg_sample" and "filtered_eeg_sample" every 2nd sample (main.rs:778-789),
\* "frequency_bands" when 250 ms have passed since the last analysis
\* (main.rs:792-797)
TickEvents(sample_count, fft_due, lsl_sample, filtered_sample, bands) ==
    (IF sample_count % 2 = 0
        THEN <<[event |-> "eeg_sample", payload |-> lsl_sample]>> ELSE <<>>)
    \o (IF sample_count % 2 = 0
        THEN <<[event |-> "filtered_eeg_sample", payload |-> filtered_sample]>> ELSE <<>>)
    \o (IF fft_due
        THEN <<[event |-> "frequency_bands", payload |-> bands]>> ELSE <<>>)

\* variant of TickEmit: the analysis reads the windows as they were before
\* the tick's update
TickEmit_AnalyzeStale(l) ==
    /\ loop[l].pc = "emit"
    /\ LET fft_due == loop[l].timestamp - loop[l].last_fft_time >= FftPeriodMs
           stale == Unwrap(loop[l].locals.at_lock).filtered
       IN  /\ emitted' = [emitted EXCEPT ![l] =
                 TickEvents(loop[l].sample_count, fft_due,
                            Unwrap(loop[l].locals.lsl_sample),
                            Unwrap(loop[l].locals.filtered_sample),
                            analyze_frequency_bands(stale, loop[l].timestamp))]
           /\ loop' = [loop EXCEPT ![l].pc = "unlock",
                          ![l].last_fft_time = IF fft_due THEN loop[l].timestamp ELSE @,
                          ![l].locals.analysed = IF fft_due THEN Some(stale) ELSE None]
    /\ UNCHANGED <<bench, pipeline, processor_locked, commands, torn_down>>

\* the emissions and the analysis of a processed tick (main.rs:777-799); an
\* Err of emit_all is only logged, so both results leave the same state
TickEmit(l) ==
    /\ loop[l].pc = "emit"
    /\ LET fft_due == loop[l].timestamp - loop[l].last_fft_time >= FftPeriodMs
       IN  /\ emitted' = [emitted EXCEPT ![l] =
                 TickEvents(loop[l].sample_count, fft_due,
                            Unwrap(loop[l].locals.lsl_sample),
                            Unwrap(loop[l].locals.filtered_sample),
                            analyze_frequency_bands(filtered_buffers, loop[l].timestamp))]
           /\ loop' = [loop EXCEPT ![l].pc = "unlock",
                          ![l].last_fft_time = IF fft_due THEN loop[l].timestamp ELSE @,
                          ![l].locals.analysed = IF fft_due THEN Some(filtered_buffers) ELSE None]
    /\ UNCHANGED <<bench, pipeline, processor_locked, commands, torn_down>>

\* variant of TickUnlock: the loop ends when the tick got no sample
TickUnlock_StopOnUnderrun(l) ==
    /\ loop[l].pc = "unlock"
    /\ processor_locked' = FALSE
    /\ loop' = [loop EXCEPT
                   ![l].pc = IF loop[l].locals.is_real_connection
                                /\ ~IsSome(loop[l].locals.lsl_sample)
                             THEN "off" ELSE "wait",
                   ![l].failed = loop[l].locals.is_real_connection
                                 /\ ~IsSome(loop[l].locals.lsl_sample),
                   ![l].locals = LoopIdle(l)]
    /\ emitted' = [emitted EXCEPT ![l] = <<>>]
    /\ UNCHANGED <<bench, pipeline, commands, torn_down>>

\* drop(processor_guard) (main.rs:810); the loop goes back to interval.tick();
\* failed remembers whether the tick got no sample on a real connection
TickUnlock(l) ==
    /\ loop[l].pc = "unlock"
    /\ processor_locked' = FALSE
    /\ loop' = [loop EXCEPT ![l].pc = "wait",
                            ![l].failed = loop[l].locals.is_real_connection
                                          /\ ~IsSome(loop[l].locals.lsl_sample),
                            ![l].locals = LoopIdle(l)]
    /\ emitted' = [emitted EXCEPT ![l] = <<>>]
    /\ UNCHANGED <<bench, pipeline, commands, torn_down>>

(***************************************************************************)
(* Specification.                                                          *)
(***************************************************************************)
Next ==
    \/ \E t \in Targets : ConnectCall(t)
    \/ ConnectLock
    \/ connect_to_lsl
    \/ ConnectReturn
    \/ DisconnectCall
    \/ DisconnectLock
    \/ disconnect_lsl
    \/ DisconnectReturn
    \/ InfoCall
    \/ InfoLock
    \/ get_stream_info
    \/ InfoReturn
    \/ \E l \in Loops :
          \/ start_eeg_processing(l)
          \/ IntervalTick(l)
          \/ TickLock(l)
          \/ TickSleep(l)
          \/ PullBegin(l)
          \/ PullEnd(l)
          \/ TickFilter(l)
          \/ TickUpdateBuffers(l)
          \/ TickEmit(l)
          \/ TickUnlock(l)

Spec == Init /\ [][Next]_vars

\* Scheduling.  The steps of a tick between taking and dropping the guard
\* and the steps of a command that holds the guard are not suspended for
\* ever: the blocking calls return within their timeouts (resolve_streams
\* 10.0 and 0.1, pull_sample 0.001, sleep 100 ms).  The interval fires.  The
\* tokio Mutex serves its waiters in order, so a tick that waits for a guard
\* that is released again and again gets it.
TickProgress(l) ==
    \/ TickSleep(l) \/ PullBegin(l) \/ PullEnd(l) \/ TickFilter(l)
    \/ TickUpdateBuffers(l) \/ TickEmit(l) \/ TickUnlock(l)
CommandProgress ==
    \/ connect_to_lsl \/ ConnectReturn \/ disconnect_lsl \/ DisconnectReturn
Fairness ==
    /\ WF_vars(CommandProgress)
    /\ \A l \in Loops :
          /\ WF_vars(IntervalTick(l))
          /\ SF_vars(TickLock(l))
          /\ WF_vars(TickProgress(l))

\* the program with the commands that change the connection, called for one
\* name, and the loops
LiveTarget == <<"e", "e", "g">>
LiveNext ==
    \/ ConnectCall(LiveTarget)
    \/ ConnectLock
    \/ connect_to_lsl
    \/ ConnectReturn
    \/ DisconnectCall
    \/ DisconnectLock
    \/ disconnect_lsl
    \/ DisconnectReturn
    \/ \E l \in Loops :
          \/ start_eeg_processing(l)
          \/ IntervalTick(l)
          \/ TickLock(l)
          \/ TickSleep(l)
          \/ PullBegin(l)
          \/ PullEnd(l)
          \/ TickFilter(l)
          \/ TickUpdateBuffers(l)
          \/ TickEmit(l)
          \/ TickUnlock(l)

LiveSpec == Init /\ [][LiveNext]_vars /\ Fairness

(***************************************************************************)
(* The ring buffer on its own: update_buffers applied to one channel for   *)
(* any sequence of values; bench.pushed remembers what was pushed.         *)
(***************************************************************************)
PushValues == 1..3
MaxPushes == buffer_size + 2

WindowInit ==
    /\ PipelineInit
    /\ bench = [raw |-> EmptyWindows(1), filtered |-> EmptyWindows(1), pushed |-> <<>>]

\* one update_buffers call with raw value v and filtered value -v
WindowPush ==
    /\ Len(bench.pushed) < MaxPushes
    /\ \E v \in PushValues :
          LET r == update_buffers(bench.raw, bench.filtered,
                                  [timestamp |-> 0, channels |-> <<v>>],
                                  [timestamp |-> 0, channels |-> <<-v>>])
          IN  bench' = [raw |-> r.raw, filtered |-> r.filtered,
                        pushed |-> Append(bench.pushed, v)]
    /\ UNCHANGED <<pipeline, processor_locked, commands, loop, emitted, torn_down>>

WindowNext == WindowPush

WindowSpec == WindowInit /\ [][WindowNext]_vars

(***************************************************************************)
(* The two matchers and the pull on their own: the closure of connect for  *)
(* any target and discovered list, and get_lsl_sample for any connection,  *)
(* discovered list and pulled vector.                                      *)
(***************************************************************************)
\* EEGProcessor::get_lsl_sample as a function of the connection it reads and
\* of what the source answers (main.rs:488-546); contacted tells whether the
\* blocking task was started
get_lsl_sample(conn, streams, inlet_ok, pulled) ==
    IF ~conn.is_real_connection THEN [contacted |-> FALSE, sample |-> None]
    ELSE IF ~IsSome(conn.stream_name) THEN [contacted |-> FALSE, sample |-> None]
    ELSE [ contacted |-> TRUE,
           sample |-> PullOutcome(streams, Unwrap(conn.stream_name),
                                  conn.channel_count, inlet_ok, pulled) ]

\* the connections a pull may find: the initial one, real ones bound to a
\* name, and ones with a name left but not real
PullConnections ==
    { LSLConnection_new }
    \cup { [ stream_info |-> None, channel_count |-> c,
             is_real_connection |-> real, stream_name |-> Some(t) ] :
           c \in ChannelCounts, real \in BOOLEAN, t \in Targets }

MatchInit ==
    /\ PipelineInit
    /\ bench = BenchIdle

MatchConnect ==
    /\ bench = BenchIdle
    /\ \E target \in Targets, streams \in Discovered, inlet_ok \in BOOLEAN :
          bench' = [ op |-> "connect", target |-> target, streams |-> streams,
                     result |-> ConnectOutcome(streams, target, inlet_ok) ]
    /\ UNCHANGED <<pipeline, processor_locked, commands, loop, emitted, torn_down>>

MatchPull ==
    /\ bench = BenchIdle
    /\ \E conn \in PullConnections, streams \in Discovered, inlet_ok \in BOOLEAN,
          pulled \in Pulls :
          bench' = [ op |-> "pull", conn |-> conn, streams |-> streams,
                     inlet_ok |-> inlet_ok, pulled |-> pulled,
                     result |-> get_lsl_sample(conn, streams, inlet_ok, pulled) ]
    /\ UNCHANGED <<pipeline, processor_locked, commands, loop, emitted, torn_down>>

MatchNext == MatchConnect \/ MatchPull

MatchSpec == MatchInit /\ [][MatchNext]_vars

(***************************************************************************)
(* The channel-name derivation on its own, for devices of every family and *)
(* every channel count up to MaxChannels.                                  *)
(***************************************************************************)
MaxChannels == 18

\* devices as the source describes them; family is what the device is
NameDevices ==
    { [family |-> "Unicorn", hostname |-> <<"p", "c">>, source_id |-> StrUnicorn],
      [family |-> "Unicorn", hostname |-> <<"U">> \o Tail(StrUnicorn), source_id |-> <<"a">>],
      [family |-> "Unicorn", hostname |-> Str123, source_id |-> <<"a">>],
      [family |-> "OpenBCI", hostname |-> <<"p", "c">>, source_id |-> StrOpenbci \o <<"1">>],
      [family |-> "OpenBCI", hostname |-> StrOpenbci, source_id |-> <<"a">>],
      [family |-> "Emotiv", hostname |-> <<"p", "c">>, source_id |-> StrEmotiv],
      [family |-> "unknown", hostname |-> <<"E", "E", "G">>, source_id |-> <<"a">>] }

NamesInit ==
    /\ PipelineInit
    /\ bench = BenchIdle

NamesStep ==
    /\ bench = BenchIdle
    /\ \E device \in NameDevices, channel_count \in 0..MaxChannels :
          bench' = [ op |-> "names", device |-> device, channel_count |-> channel_count,
                     result |-> extract_real_channel_names_sync(device, channel_count) ]
    /\ UNCHANGED <<pipeline, processor_locked, commands, loop, emitted, torn_down>>

NamesNext == NamesStep

NamesSpec == NamesInit /\ [][NamesNext]_vars

(***************************************************************************)
(* The locks on their own: every operation as the sequence of lock()        *)
(* calls, guard drops and blocking calls it makes, with the data left out;  *)
(* which branch an operation takes is chosen when it is issued.  bench      *)
(* holds the owner of each Mutex and the position of each operation.        *)
(***************************************************************************)
LockNames ==
    { "processor", "lsl_connection", "channel_buffers", "filtered_buffers",
      "bandpass_filter", "notch_filter" }

LockCommands == { <<"connect", 0>>, <<"disconnect", 0>>, <<"info", 0>> }
LockLoops == { <<"loop", l>> : l \in Loops }
LockThreads == LockCommands \cup LockLoops
Free == <<"free", 0>>

Acq(m) == <<"acq", m>>
Rel(m) == <<"rel", m>>
Block(call) == <<"block", call>>

\* connect_to_lsl_stream: the processor guard, the blocking discovery, then
\* either the Ok arm (the connection guard held over four temporaries) or an
\* Err arm (main.rs:686, 227-349, 356-368, 700)
ConnectPaths ==
    { << Acq("processor"), Block("resolve_streams"),
         Acq("lsl_connection"),
         Acq("channel_buffers"), Rel("channel_buffers"),
         Acq("filtered_buffers"), Rel("filtered_buffers"),
         Acq("bandpass_filter"), Rel("bandpass_filter"),
         Acq("notch_filter"), Rel("notch_filter"),
         Rel("lsl_connection"), Rel("processor") >>,
      << Acq("processor"), Block("resolve_streams"), Rel("processor") >> }

\* disconnect_from_lsl (main.rs:710, 476-484)
DisconnectPaths ==
    { << Acq("processor"), Acq("lsl_connection"),
         Acq("bandpass_filter"), Rel("bandpass_filter"),
         Acq("notch_filter"), Rel("notch_filter"),
         Rel("lsl_connection"), Rel("processor") >> }

\* get_current_stream_info (main.rs:723, 668-669)
InfoPaths ==
    { << Acq("processor"), Acq("lsl_connection"), Rel("lsl_connection"),
         Rel("processor") >> }

\* the start of every tick: the guard and is_real_connection (main.rs:757-758, 673-674)
TickHead == << Acq("processor"), Acq("lsl_connection"), Rel("lsl_connection") >>

\* get_lsl_sample: the connection guard dropped before the blocking task
\* (main.rs:489-498, 501-545)
TickPull == << Acq("lsl_connection"), Rel("lsl_connection"), Block("pull_sample") >>

\* apply_real_time_filters and update_buffers, guards dropped in reverse
\* order of declaration (main.rs:549-550, 589-590)
TickProcess ==
    << Acq("bandpass_filter"), Acq("notch_filter"),
       Rel("notch_filter"), Rel("bandpass_filter"),
       Acq("channel_buffers"), Acq("filtered_buffers"),
       Rel("filtered_buffers"), Rel("channel_buffers") >>

\* analyze_frequency_bands (main.rs:612)
TickAnalyze == << Acq("filtered_buffers"), Rel("filtered_buffers") >>

\* a variant of TickPaths in which the guard of the tick is never dropped
TickPaths_KeepGuard ==
    { TickHead \o << Block("sleep") >>,
      TickHead \o TickPull,
      TickHead \o TickPull \o TickProcess,
      TickHead \o TickPull \o TickProcess \o TickAnalyze }

\* one iteration of the loop: no real connection, no sample, a sample, a
\* sample and an analysis; drop(processor_guard) ends each (main.rs:757-810)
TickPaths ==
    { TickHead \o << Block("sleep"), Rel("processor") >>,
      TickHead \o TickPull \o << Rel("processor") >>,
      TickHead \o TickPull \o TickProcess \o << Rel("processor") >>,
      TickHead \o TickPull \o TickProcess \o TickAnalyze \o << Rel("processor") >> }

PathsOf(t) ==
    CASE t[1] = "connect" -> ConnectPaths
      [] t[1] = "disconnect" -> DisconnectPaths
      [] t[1] = "info" -> InfoPaths
      [] OTHER -> TickPaths

LockIdle ==
    [ op |-> "locks",
      owner |-> [m \in LockNames |-> Free],
      pc |-> [t \in LockThreads |-> 0],
      path |-> [t \in LockThreads |-> <<>>] ]

LockInit ==
    /\ PipelineInit
    /\ bench = LockIdle

\* a command is invoked, or interval.tick() returns in a loop
LockIssue(t) ==
    /\ bench.pc[t] = 0
    /\ \E path \in PathsOf(t) :
          bench' = [bench EXCEPT !.pc[t] = 1, !.path[t] = path]
    /\ UNCHANGED <<pipeline, processor_locked, commands, loop, emitted, torn_down>>

\* the operation t is at its last step
LockAtEnd(t) == bench.pc[t] = Len(bench.path[t])

\* the next lock().await, guard drop or blocking call of t; lock().await
\* returns only when the Mutex is free
LockStep(t) ==
    /\ bench.pc[t] > 0
    /\ LET step == bench.path[t][bench.pc[t]]
           pc == IF LockAtEnd(t) THEN 0 ELSE bench.pc[t] + 1
           path == IF LockAtEnd(t) THEN <<>> ELSE bench.path[t]
       IN  CASE step[1] = "acq" ->
                  /\ bench.owner[step[2]] = Free
                  /\ bench' = [bench EXCEPT !.owner[step[2]] = t,
                                            !.pc[t] = pc, !.path[t] = path]
             [] step[1] = "rel" ->
                  /\ bench.owner[step[2]] = t
                  /\ bench' = [bench EXCEPT !.owner[step[2]] = Free,
                                            !.pc[t] = pc, !.path[t] = path]
             [] OTHER ->
                  bench' = [bench EXCEPT !.pc[t] = pc, !.path[t] = path]
    /\ UNCHANGED <<pipeline, processor_locked, commands, loop, emitted, torn_down>>

LockNext == \E t \in LockThreads : LockIssue(t) \/ LockStep(t)

LockSpec == LockInit /\ [][LockNext]_vars

\* every blocking call returns and every task is scheduled; tokio's Mutex is
\* fair, so a lock().await that finds the Mutex free again and again
\* returns; the interval of a loop keeps ticking
LockFairness ==
    /\ \A t \in LockThreads : SF_vars(LockStep(t))
    /\ \A t \in LockLoops : WF_vars(LockIssue(t))

LockLiveSpec == LockSpec /\ LockFairness

\* t is at a lock().await on a Mutex that is not free
LockWaiting(t) ==
    /\ bench.pc[t] > 0
    /\ bench.path[t][bench.pc[t]][1] = "acq"
    /\ bench.owner[bench.path[t][bench.pc[t]][2]] # Free

(***************************************************************************)
(* The band match on its own: the loop over the coefficients of one        *)
(* transformed window of WindowCapacity samples (main.rs:639-651);         *)
(* bench.bands holds, per band, the indices whose power it has received.   *)
(***************************************************************************)
BandInit ==
    /\ PipelineInit
    /\ bench = [i |-> 0, bands |-> [b \in BandNames |-> {}]]

BandStep ==
    /\ bench.i < WindowCapacity
    /\ bench' = [ i |-> bench.i + 1,
                  bands |-> [b \in BandNames |->
                      IF BandOf(bench.i, sample_rate, WindowCapacity) = b
                      THEN bench.bands[b] \cup {bench.i} ELSE bench.bands[b]] ]
    /\ UNCHANGED <<pipeline, processor_locked, commands, loop, emitted, torn_down>>

BandNext == BandStep

BandSpec == BandInit /\ [][BandNext]_vars

(***************************************************************************)
(* Who holds the processor mutex.                                          *)
(***************************************************************************)
InTick(l) == loop[l].pc \in {"pull", "pulling", "filter", "buffers", "emit", "sleep", "unlock"}
ConnectHolds == connect_cmd.pc \in {"resolve", "done"}
DisconnectHolds == disconnect_cmd.pc \in {"run", "done"}
InfoHolds == info_cmd.pc \in {"run", "done"}
Holders ==
    Cardinality({ l \in Loops : InTick(l) })
    + (IF ConnectHolds THEN 1 ELSE 0)
    + (IF DisconnectHolds THEN 1 ELSE 0)
    + (IF InfoHolds THEN 1 ELSE 0)

\* an initialized filter holds n per-channel input and output histories
HistoriesAre(f, n) == Len(Unwrap(f).x_history) = n /\ Len(Unwrap(f).y_history) = n

\* a blocking call on the external source is in flight: resolve_streams of a
\* connect (main.rs:231), or the resolve/inlet/pull of a tick (main.rs:501-543)
DiscoveryInFlight == connect_cmd.pc = "resolve"
PullInFlight(l) == loop[l].pc = "pulling"

\* loop l is at the end of a tick of the given kind
Underrun(l) ==
    /\ loop[l].pc = "unlock"
    /\ loop[l].locals.is_real_connection
    /\ ~IsSome(loop[l].locals.lsl_sample)
NonRealTick(l) ==
    /\ loop[l].pc = "unlock"
    /\ ~loop[l].locals.is_real_connection

(***************************************************************************)
(* Properties.                                                             *)
(***************************************************************************)

\* C1: in every reachable state the channel_count of the connection equals
\* the number of raw windows, the number of filtered windows and the number
\* of per-channel histories of each initialized filter.
C1_ChannelCountConsistent ==
    /\ Len(channel_buffers) = connection.channel_count
    /\ Len(filtered_buffers) = connection.channel_count
    /\ IsSome(bandpass_filter) => HistoriesAre(bandpass_filter, connection.channel_count)
    /\ IsSome(notch_filter) => HistoriesAre(notch_filter, connection.channel_count)

\* C2: right after a connect that succeeded against a stream advertising C
\* channels (C >= 1), channel_count = C, there are C empty raw windows and C
\* empty filtered windows, and bandpass and notch hold C all-zero input and
\* output histories of length 5 and 3.
C2_ConnectResizesAll ==
    (connect_cmd.pc = "done" /\ Unwrap(connect_cmd.result).ok) =>
        LET C == Unwrap(connect_cmd.result).info.channel_count
        IN  /\ C >= 1
            /\ connection.channel_count = C
            /\ Len(channel_buffers) = C /\ Len(filtered_buffers) = C
            /\ \A c \in 1..C : channel_buffers[c] = <<>> /\ filtered_buffers[c] = <<>>
            /\ IsSome(bandpass_filter) /\ IsSome(notch_filter)
            /\ HistoriesAre(bandpass_filter, C) /\ HistoriesAre(notch_filter, C)
            /\ \A c \in 1..C :
                  /\ Unwrap(bandpass_filter).x_history[c] = <<0, 0, 0, 0, 0>>
                  /\ Unwrap(bandpass_filter).y_history[c] = <<0, 0, 0, 0, 0>>
                  /\ Unwrap(notch_filter).x_history[c] = <<0, 0, 0>>
                  /\ Unwrap(notch_filter).y_history[c] = <<0, 0, 0>>

\* a reconnect from a 1-channel connection whose window was full and whose
\* filters had run, to a 2-channel stream, has just committed
C2_Witness ==
    /\ connect_cmd.pc = "done"
    /\ Unwrap(connect_cmd.result).ok
    /\ Unwrap(connect_cmd.result).info.channel_count = 2
    /\ Unwrap(connect_cmd.pre).connection.channel_count = 1
    /\ Len(Unwrap(connect_cmd.pre).filtered[1]) = buffer_size
    /\ Unwrap(connect_cmd.pre).bandpass # Some(ButterworthFilter_new(BandpassOrder, 1))

\* C3: disconnect leaves descriptor = none, channel_count = 8, not real, no
\* bound name and both filters torn down, and this lasts until a connect
\* succeeds; a get_current_stream_info that runs meanwhile returns none.
C3_DisconnectResets ==
    /\ disconnect_cmd.pc = "done" => torn_down
    /\ torn_down =>
          /\ connection.stream_info = None
          /\ connection.channel_count = 8
          /\ connection.is_real_connection = FALSE
          /\ connection.stream_name = None
          /\ bandpass_filter = None
          /\ notch_filter = None
    /\ (info_cmd.pc = "done" /\ torn_down) => info_cmd.ret = None

\* get_current_stream_info has returned after the disconnect of a real
\* connection (its windows are still there)
C3_Witness ==
    /\ info_cmd.pc = "done"
    /\ torn_down
    /\ Len(channel_buffers) # DefaultChannels

C5_SerializedAndSized ==
    /\ Holders <= 1
    /\ \A l \in Loops :
          loop[l].pc \in {"filter", "buffers"} =>
              /\ Len(Unwrap(loop[l].locals.lsl_sample).channels) = connection.channel_count
              /\ Len(channel_buffers) = connection.channel_count
              /\ Len(filtered_buffers) = connection.channel_count
              /\ IsSome(bandpass_filter) /\ IsSome(notch_filter)
              /\ HistoriesAre(bandpass_filter, connection.channel_count)
              /\ HistoriesAre(notch_filter, connection.channel_count)
              /\ loop[l].pc = "buffers" =>
                    Len(Unwrap(loop[l].locals.filtered_sample).channels) = connection.channel_count

\* a tick is about to buffer a 2-channel sample while a disconnect, a connect
\* and the other loop wait for the processor
C5_Witness ==
    \E l \in Loops :
        /\ loop[l].pc = "buffers"
        /\ connection.channel_count = 2
        /\ disconnect_cmd.pc = "lock"
        /\ connect_cmd.pc = "lock"
        /\ \E k \in Loops : loop[k].pc = "lock"

\* C6: on a tick in real mode whose pull returned no sample, nothing is
\* emitted, no sample is substituted, filters and windows are as they were
\* when the tick began, and the loop goes on to its next tick.
C6_UnderrunSkips ==
    \A l \in Loops :
        Underrun(l) =>
            /\ emitted[l] = <<>>
            /\ loop[l].locals.filtered_sample = None
            /\ channel_buffers = Unwrap(loop[l].locals.at_lock).raw
            /\ filtered_buffers = Unwrap(loop[l].locals.at_lock).filtered
            /\ bandpass_filter = Unwrap(loop[l].locals.at_lock).bandpass
            /\ notch_filter = Unwrap(loop[l].locals.at_lock).notch
            /\ ENABLED TickUnlock(l)

\* an underrun on a connection whose windows already hold samples
C6_Witness ==
    \E l \in Loops :
        /\ Underrun(l)
        /\ IsSome(loop[l].locals.pull)
        /\ \E c \in 1..Len(filtered_buffers) : Len(filtered_buffers[c]) > 0

\* C7: while the connection is not real, every tick obtains a synthesized
\* sample of channel_count channels, filters it and pushes it into every raw
\* and filtered window.
C7_NonRealTickSynthesizes ==
    \A l \in Loops :
        NonRealTick(l) =>
            /\ IsSome(loop[l].locals.lsl_sample)
            /\ IsSome(loop[l].locals.filtered_sample)
            /\ \A c \in 1..Len(channel_buffers) :
                  /\ channel_buffers[c] # <<>>
                  /\ filtered_buffers[c] # <<>>

\* C8: whatever the number of start_eeg_processing calls, at most one tick
\* loop is active.
C8_AtMostOneLoop ==
    Cardinality({ l \in Loops : loop[l].pc # "off" }) <= 1

\* C9: the events of a tick are emitted in the order raw, filtered, band
\* powers; raw and filtered are emitted on the same ticks and carry the
\* tick's sample and its filtered sample.
EventRank(e) ==
    CASE e.event = "eeg_sample" -> 1
      [] e.event = "filtered_eeg_sample" -> 2
      [] e.event = "frequency_bands" -> 3

C9_EmissionOrder ==
    \A l \in Loops :
        LET ev == emitted[l]
            has(name) == \E i \in 1..Len(ev) : ev[i].event = name
        IN  /\ \A i, j \in 1..Len(ev) : i < j => EventRank(ev[i]) < EventRank(ev[j])
            /\ has("eeg_sample") <=> has("filtered_eeg_sample")
            /\ \A i \in 1..Len(ev) :
                  /\ ev[i].event = "eeg_sample" =>
                        ev[i].payload = Unwrap(loop[l].locals.lsl_sample)
                  /\ ev[i].event = "filtered_eeg_sample" =>
                        ev[i].payload = Unwrap(loop[l].locals.filtered_sample)

\* a tick has emitted all three events
C9_Witness ==
    \E l \in Loops :
        /\ Len(emitted[l]) = 3
        /\ loop[l].pc = "unlock"

\* C10: the windows a band-power emission was computed from are the filtered
\* windows as update_buffers of the same tick left them; each of them ends
\* with that tick's filtered value.
C10_BandsFromUpdatedWindows ==
    \A l \in Loops :
        IsSome(loop[l].locals.analysed) =>
            LET w == Unwrap(loop[l].locals.analysed)
                f == Unwrap(loop[l].locals.filtered_sample)
                bands == emitted[l][Len(emitted[l])]
            IN  /\ loop[l].locals.after_update = Some(w)
                /\ Len(w) = Len(f.channels)
                /\ \A c \in 1..Len(w) : w[c] # <<>> /\ w[c][Len(w[c])] = f.channels[c]
                /\ bands.event = "frequency_bands"
                /\ \A k \in 1..Len(bands.payload) :
                      bands.payload[k].window = w[bands.payload[k].channel + 1]

\* band powers were emitted for a full window while the other loop, a
\* connect and a disconnect waited for the processor
C10_Witness ==
    \E l \in Loops :
        /\ IsSome(loop[l].locals.analysed)
        /\ Len(emitted[l][Len(emitted[l])].payload) > 0
        /\ connect_cmd.pc = "lock"
        /\ disconnect_cmd.pc = "lock"
        /\ \E k \in Loops : loop[k].pc = "lock"

\* C11: an analysis cycle returns an entry for channel c if and only if the
\* filtered window of c holds exactly buffer_size samples at that moment: a
\* full window yields exactly one entry tagged with its channel index, a
\* shorter window yields none, and the collection may be empty.
C11_EntryIffFullWindow ==
    \A l \in Loops :
        IsSome(loop[l].locals.analysed) =>
            LET w == Unwrap(loop[l].locals.analysed)
                bands == emitted[l][Len(emitted[l])].payload
            IN  /\ w = filtered_buffers
                /\ \A c \in 1..Len(w) :
                      Cardinality({ k \in 1..Len(bands) : bands[k].channel = c - 1 })
                          = (IF Len(w[c]) = buffer_size THEN 1 ELSE 0)
                /\ \A k \in 1..Len(bands) : bands[k].channel + 1 \in 1..Len(w)

\* an analysis over two full windows has returned the entries of channels 0
\* and 1
C11_Witness ==
    \E l \in Loops :
        /\ IsSome(loop[l].locals.analysed)
        /\ Len(filtered_buffers) = 2
        /\ \A c \in 1..2 : Len(filtered_buffers[c]) = buffer_size
        /\ Len(emitted[l][Len(emitted[l])].payload) = 2

\* an analysis over windows one sample short of buffer_size has returned the
\* empty collection
C11_WitnessEmpty ==
    \E l \in Loops :
        /\ IsSome(loop[l].locals.analysed)
        /\ \A c \in 1..Len(filtered_buffers) : Len(filtered_buffers[c]) = buffer_size - 1
        /\ emitted[l][Len(emitted[l])].payload = <<>>

\* C12: after any sequence of N pushes to one channel the window holds the
\* last min(N, buffer_size) pushed values in push order; for N > buffer_size
\* it holds exactly buffer_size values, the oldest N - buffer_size being gone.
C12_WindowIsFifo ==
    LET N == Len(bench.pushed)
        k == Min(N, buffer_size)
        last == SubSeq(bench.pushed, N - k + 1, N)
    IN  /\ bench.raw[1] = last
        /\ bench.filtered[1] = [i \in 1..k |-> -last[i]]
        /\ N > buffer_size => Len(bench.raw[1]) = buffer_size

\* more than buffer_size values were pushed, the first differing from all later
C12_Witness ==
    /\ Len(bench.pushed) = buffer_size + 2
    /\ \A i \in 2..Len(bench.pushed) : bench.pushed[i] # bench.pushed[1]
    /\ bench.pushed[Len(bench.pushed)] # bench.pushed[Len(bench.pushed) - 1]

\* C13: in every reachable state every raw window and every filtered window
\* holds at most buffer_size values, whatever the ticks, connects and
\* disconnects and however many loops run.
C13_WindowsBounded ==
    /\ \A c \in 1..Len(channel_buffers) : Len(channel_buffers[c]) <= buffer_size
    /\ \A c \in 1..Len(filtered_buffers) : Len(filtered_buffers[c]) <= buffer_size

\* with two loops running, a tick has pushed onto windows that were full
C13_Witness ==
    \E l \in Loops :
        /\ loop[l].pc = "emit"
        /\ \A k \in Loops : loop[k].pc # "off"
        /\ \A c \in 1..Len(channel_buffers) :
              /\ Len(Unwrap(loop[l].locals.at_lock).raw[c]) = buffer_size
              /\ Len(Unwrap(loop[l].locals.at_lock).filtered[c]) = buffer_size
              /\ Len(channel_buffers[c]) = buffer_size
              /\ Len(filtered_buffers[c]) = buffer_size

\* C14: no lock on the pipeline state is held while a blocking operation on
\* the source (the discovery of a connect, the resolve/inlet/pull of a tick)
\* is in flight.
C14_NoLockAcrossBlocking ==
    (DiscoveryInFlight \/ \E l \in Loops : PullInFlight(l)) => ~processor_locked

\* C15: a disconnect requested while the blocking pull of a tick is in
\* flight does not wait for the pull: it can take the pipeline and clear
\* connection and filters while the pull is still pending.
C15_DisconnectImmediate ==
    (disconnect_cmd.pc = "lock" /\ \E l \in Loops : PullInFlight(l)) =>
        ENABLED DisconnectLock

\* C17: while the discovery of a connect or the pull of another loop is
\* pending on the source, a tick that is due is not blocked from starting.
C17_TicksNotBlocked ==
    \A l \in Loops :
        (loop[l].pc = "lock"
            /\ (DiscoveryInFlight \/ \E k \in Loops \ {l} : PullInFlight(k))) =>
        ENABLED TickLock(l)

\* C16: once a disconnect has completed, no sample whose pull started before
\* it is being filtered, pushed or emitted, and windows and filters hold
\* nothing derived from such a sample.  Every value a window holds after the
\* disconnect was pulled before it, ticks pushing nothing while not real.
C16_StalePullDiscarded ==
    torn_down =>
        /\ \A l \in Loops : loop[l].pc \notin {"filter", "buffers", "emit"}
        /\ bandpass_filter = None /\ notch_filter = None
        /\ \A c \in 1..Len(channel_buffers) : channel_buffers[c] = <<>>
        /\ \A c \in 1..Len(filtered_buffers) : filtered_buffers[c] = <<>>

\* C18: a loop that was started never ends, and whatever a tick runs into
\* (no sample from the resolve, the inlet or the pull, a failed connect of a
\* command, an emission the sink rejects) the tick ends and, as long as the
\* model's budget of ticks lasts, ticks go on: the budget is spent and every
\* started loop is back at interval.tick().
C18_LoopNeverStops ==
    /\ [][\A l \in Loops : loop[l].pc # "off" => loop'[l].pc # "off"]_vars
    /\ \A l \in Loops : (loop[l].pc \notin {"off", "wait"}) ~> (loop[l].pc = "wait")
    /\ \A l \in Loops :
          (loop[l].pc # "off") ~>
              (TotalTicks = MaxTicks /\ \A k \in Loops : loop[k].pc \in {"off", "wait"})

\* the tick after one that got no sample has run and has processed a sample
C18_Witness ==
    \E l \in Loops :
        /\ loop[l].failed
        /\ loop[l].pc = "unlock"
        /\ IsSome(loop[l].locals.filtered_sample)

\* C19: every channel value of a filtered sample the filter chain produced,
\* and so every value of a filtered window, has magnitude <= 300; a value v
\* after the notch with |v| > 300 becomes 300 or -300 with the sign of v, a
\* value with |v| <= 300 is left as it is.
C19_FilteredWithinLimit ==
    /\ \A c \in 1..Len(filtered_buffers) : \A i \in 1..Len(filtered_buffers[c]) :
          /\ filtered_buffers[c][i] # NaN
          /\ filtered_buffers[c][i] \in (-300)..300
    /\ \A l \in Loops :
          loop[l].pc = "buffers" =>
              LET out == Unwrap(loop[l].locals.filtered_sample).channels
                  post == [c \in 1..Len(out) |-> Unwrap(notch_filter).y_history[c][1]]
              IN  \A c \in 1..Len(out) :
                      /\ out[c] # NaN /\ out[c] \in (-300)..300
                      /\ post[c] # NaN =>
                            /\ post[c] > 300 => out[c] = 300
                            /\ post[c] < -300 => out[c] = -300
                            /\ post[c] \in (-300)..300 => out[c] = post[c]

\* C20: of the coefficients visited so far, index i with f = i * sample_rate
\* / window size has its power in at most one band: delta iff 0.5 <= f < 4,
\* theta iff 4 <= f < 8, alpha iff 8 <= f < 12, beta iff 13 <= f < 30, gamma
\* iff 30 <= f < 100; an index with f in [12, 13), f >= 100 or f < 0.5 is in
\* no band.  Frequencies are compared in units of 1/1024 Hz (f = 500 * i).
C20_BandAssignment ==
    LET f(i) == 500 * i
        In(i, b) == i \in bench.bands[b]
    IN  \A i \in 0..(bench.i - 1) :
            /\ In(i, "delta") <=> (512 <= f(i) /\ f(i) < 4096)
            /\ In(i, "theta") <=> (4096 <= f(i) /\ f(i) < 8192)
            /\ In(i, "alpha") <=> (8192 <= f(i) /\ f(i) < 12288)
            /\ In(i, "beta") <=> (13312 <= f(i) /\ f(i) < 30720)
            /\ In(i, "gamma") <=> (30720 <= f(i) /\ f(i) < 102400)
            /\ Cardinality({ b \in BandNames : In(i, b) }) <= 1
            /\ (f(i) < 512 \/ (12288 <= f(i) /\ f(i) < 13312) \/ f(i) >= 102400) =>
                   \A b \in BandNames : ~In(i, b)

\* all 512 coefficients were visited: 24 (11.7 Hz) went to alpha, 27 (13.2 Hz)
\* to beta, and 25 and 26 (12.2 and 12.7 Hz) to no band
C20_Witness ==
    /\ bench.i = WindowCapacity
    /\ 24 \in bench.bands["alpha"]
    /\ 27 \in bench.bands["beta"]
    /\ \A b \in BandNames : 25 \notin bench.bands[b] /\ 26 \notin bench.bands[b]

\* C21: when the discovered candidates include one whose name equals the
\* target, a connect that succeeds has selected a candidate whose name equals
\* the target, whatever the discovery order; when no candidate satisfies any
\* strategy, connect fails with the not-found error listing every candidate.
C21_ExactNamePreferred ==
    bench.op = "connect" =>
        LET streams == bench.streams
            target == to_lowercase(bench.target)
            exact == { i \in 1..Len(streams) : to_lowercase(streams[i].hostname) = target }
            any == { i \in 1..Len(streams) : ConnectMatches(streams[i], bench.target) }
        IN  /\ (exact # {} /\ bench.result.ok) =>
                  to_lowercase(bench.result.info.name) = target
            /\ any = {} =>
                  /\ ~bench.result.ok
                  /\ bench.result.error = "not_found"
                  /\ bench.result.available = [i \in 1..Len(streams) |-> streams[i].hostname]

\* C22: a pull on a connection that is not real returns None without
\* contacting the source; a sample returned by a pull has exactly the
\* channel_count read at the start of the pull: the values the source
\* supplied, cut at channel_count, and 0 at the positions it did not supply.
C22_PullShape ==
    bench.op = "pull" =>
        /\ ~bench.conn.is_real_connection =>
              (bench.result.sample = None /\ ~bench.result.contacted)
        /\ IsSome(bench.result.sample) =>
              LET n == bench.conn.channel_count
                  channels == Unwrap(bench.result.sample).channels
                  values == Unwrap(bench.pulled).values
              IN  /\ Len(channels) = n
                  /\ \E k \in 1..Len(bench.streams) :
                        LET supplied == Min(bench.streams[k].channel_count, Len(values))
                        IN  \A i \in 1..n :
                              channels[i] = IF i <= supplied THEN values[i] ELSE 0

\* a one-channel stream answered a pull made with channel_count 2, and the
\* sample's second channel was filled with 0
C22_Witness ==
    /\ bench.op = "pull"
    /\ IsSome(bench.result.sample)
    /\ bench.conn.channel_count = 2
    /\ \A k \in 1..Len(bench.streams) : bench.streams[k].channel_count = 1
    /\ Unwrap(bench.result.sample).channels[2] = 0

\* a two-channel stream answered a pull made with channel_count 1, and the
\* sample kept the first value only
C22_WitnessTruncated ==
    /\ bench.op = "pull"
    /\ IsSome(bench.result.sample)
    /\ bench.conn.channel_count = 1
    /\ \A k \in 1..Len(bench.streams) : bench.streams[k].channel_count = 2
    /\ Len(Unwrap(bench.result.sample).channels) = 1

\* C23: for a device of any family and any channel count n, the derived
\* names are exactly n; position i carries the i-th name of the family's
\* table when the table has one (OpenBCI: the 8-name table for n <= 8, the
\* 16-name table otherwise) and the generic name Ch(i) counted from 1
\* otherwise; a device of unknown family gets Ch1..Chn.
C23_NamesTotal ==
    bench.op = "names" =>
        LET n == bench.channel_count
            family == bench.device.family
            table == CASE family = "Unicorn" -> unicorn_channels
                       [] family = "OpenBCI" ->
                            IF n <= 8 THEN openbci_8ch ELSE openbci_16ch
                       [] family = "Emotiv" -> emotiv_channels
                       [] OTHER -> <<>>
        IN  /\ Len(bench.result) = n
            /\ \A i \in 1..n :
                  bench.result[i] = IF i <= Len(table) THEN table[i] ELSE ChName(i)

\* a Unicorn device with more channels than its table has names: the last
\* name is the generic one
C23_Witness ==
    /\ bench.op = "names"
    /\ bench.device.family = "Unicorn"
    /\ bench.channel_count = Len(unicorn_channels) + 1
    /\ bench.result[bench.channel_count] = "Ch18"
    /\ bench.result[1] = "Fz"

\* C24: in every reachable state the raw and the filtered window sets have
\* the same number of channels and, channel by channel, the same length; a
\* processed sample appends exactly one value to the raw and one to the
\* filtered window of every channel: its own value there, with the oldest
\* value leaving a window that was full.
C24_Lockstep ==
    LET Pushed(before, after, v) ==
            after = IF Len(before) < buffer_size
                    THEN Append(before, v)
                    ELSE Append(Tail(before), v)
    IN  /\ Len(channel_buffers) = Len(filtered_buffers)
        /\ \A c \in 1..Len(channel_buffers) :
              Len(channel_buffers[c]) = Len(filtered_buffers[c])
        /\ \A l \in Loops :
              loop[l].pc = "emit" =>
                  LET before == Unwrap(loop[l].locals.at_lock)
                      raw == Unwrap(loop[l].locals.lsl_sample).channels
                      filt == Unwrap(loop[l].locals.filtered_sample).channels
                  IN  \A c \in 1..Len(channel_buffers) :
                        /\ Pushed(before.raw[c], channel_buffers[c], raw[c])
                        /\ Pushed(before.filtered[c], filtered_buffers[c], filt[c])

\* a sample of two channels was pushed onto windows holding one value each,
\* its filtered values differing from its raw ones
C24_Witness ==
    \E l \in Loops :
        /\ loop[l].pc = "emit"
        /\ Len(channel_buffers) = 2
        /\ \A c \in 1..2 :
              /\ Len(Unwrap(loop[l].locals.at_lock).raw[c]) = 1
              /\ Len(channel_buffers[c]) = 2
              /\ Len(filtered_buffers[c]) = 2
        /\ channel_buffers[1][2] # filtered_buffers[1][2]

\* C25: the raw sample processed in a tick carries as timestamp the time
\* elapsed since the loop started, as computed at the beginning of that tick,
\* and the filtered sample of the tick carries the timestamp of its raw sample.
C25_SampleTimestampIsElapsed ==
    \A l \in Loops :
        (loop[l].pc \in {"filter", "buffers", "emit"} /\ IsSome(loop[l].locals.lsl_sample)) =>
            /\ Unwrap(loop[l].locals.lsl_sample).timestamp = loop[l].timestamp
            /\ IsSome(loop[l].locals.filtered_sample) =>
                  Unwrap(loop[l].locals.filtered_sample).timestamp
                      = Unwrap(loop[l].locals.lsl_sample).timestamp

\* C26: in every state is-real-connection holds exactly when the descriptor
\* is present, exactly when the bound name is present, and exactly when both
\* the bandpass and the notch filter are initialized; and no tick of the loop
\* has filtered a sample through the path for uninitialized filters.
C26_FactsAgree ==
    /\ connection.is_real_connection <=> IsSome(connection.stream_info)
    /\ connection.is_real_connection <=> IsSome(connection.stream_name)
    /\ connection.is_real_connection <=> (IsSome(bandpass_filter) /\ IsSome(notch_filter))
    /\ IsSome(bandpass_filter) <=> IsSome(notch_filter)
    /\ \A l \in Loops : ~loop[l].locals.fallback

\* a tick has filtered a sample on a real connection while a disconnect is
\* waiting for the processor
C26_Witness ==
    \E l \in Loops :
        /\ loop[l].pc = "buffers"
        /\ IsSome(loop[l].locals.filtered_sample)
        /\ connection.is_real_connection
        /\ disconnect_cmd.pc = "lock"
        /\ connect_cmd.pc = "idle"

\* C27: when connect returns an error, the connection (descriptor,
\* channel_count, is-real flag, bound name), the raw windows, the filtered
\* windows and both filter states are what they were when the call took hold
\* of the pipeline.
C27_FailedConnectChangesNothing ==
    (connect_cmd.pc = "done" /\ ~Unwrap(connect_cmd.result).ok) =>
        LET pre == Unwrap(connect_cmd.pre)
        IN  /\ connection = pre.connection
            /\ channel_buffers = pre.raw
            /\ filtered_buffers = pre.filtered
            /\ bandpass_filter = pre.bandpass
            /\ notch_filter = pre.notch

\* a reconnect attempt found no matching stream while connected, with
\* samples in the windows and in the filter histories
C27_Witness ==
    /\ connect_cmd.pc = "done"
    /\ ~Unwrap(connect_cmd.result).ok
    /\ Unwrap(connect_cmd.result).error = "not_found"
    /\ connection.is_real_connection
    /\ \A c \in 1..Len(channel_buffers) : Len(channel_buffers[c]) > 0
    /\ bandpass_filter # Some(ButterworthFilter_new(BandpassOrder, connection.channel_count))
    /\ notch_filter # Some(NotchFilter_new(connection.channel_count))

\* C28: no operation ever waits for a lock whose owner is itself waiting or
\* has finished while holding it, whatever the interleaving of the loops
\* with connect, disconnect and get_current_stream_info; and, blocking calls
\* returning, every connect, disconnect and get_current_stream_info that was
\* issued completes.
C28_DeadlockFree ==
    /\ [](\A t \in LockThreads :
            LockWaiting(t) =>
                LET holder == bench.owner[bench.path[t][bench.pc[t]][2]]
                IN  /\ bench.pc[holder] > 0
                    /\ ~LockWaiting(holder))
    /\ \A t \in LockCommands : (bench.pc[t] > 0) ~> (bench.pc[t] = 0)

\* the three commands and another loop all wait for the processor while a
\* tick holds it together with both filter guards
C28_Witness ==
    /\ bench.op = "locks"
    /\ \E t \in LockLoops :
          /\ bench.owner["processor"] = t
          /\ bench.owner["bandpass_filter"] = t
          /\ bench.owner["notch_filter"] = t
          /\ \A u \in LockThreads \ {t} : LockWaiting(u)

\* C29: for every target and every discovered candidate, if the matcher of
\* connect accepts the candidate then the matcher of the per-tick pull accepts
\* it too, so that a pull for the bound name on the same still-advertised
\* streams, with the inlet opening and a vector delivered, returns a sample.
C29_PullMatcherCoversConnect ==
    bench.op = "connect" =>
        /\ \A i \in 1..Len(bench.streams) :
              ConnectMatches(bench.streams[i], bench.target) =>
                  PullMatches(bench.streams[i], bench.target)
        /\ bench.result.ok =>
              \A pulled \in Pulls \ {None} :
                  IsSome(PullOutcome(bench.streams, bench.target,
                                     bench.result.channel_count, TRUE, pulled))

====
